---------------------------- MODULE Spec2Model ----------------------------
(***************************************************************************)
(* Model of color_detector_esp32/src/main.cpp: the TCS2300 colour sensor   *)
(* reader (read_color_channel), the running raw extrema                    *)
(* (color_min_max_readings), the classifier (map_color_vals) and the       *)
(* control loop (loop / write_color_to_display).                           *)
(*                                                                         *)
(* Four specifications share the variables:                                *)
(*   Spec           the program: setup() has run, loop() repeats.          *)
(*   SpecClassify   map_color_vals applied to one frame drawn from a       *)
(*                  bounded set of integer triples.                        *)
(*   SpecNormalize  read_color_channel applied once, the calibration row   *)
(*                  of the channel drawn from a bounded set of ranges.     *)
(*   SpecExtrema    read_color_channel called repeatedly, on any channel,  *)
(*                  with the raw readings logged.                          *)
(***************************************************************************)
EXTENDS Integers, Sequences, FiniteSets

VARIABLES
    color_readings,          \* int color_readings[4]
    color_min_max_readings,  \* int color_min_max_readings[4][2], <<min, max>>
    color_read_calib_vals,   \* int color_read_calib_vals[4][2], <<low, high>>
    pc,                      \* position of the control flow
    color,                   \* loop()'s index variable
    raw,                     \* what pulseIn() returned in the last read
    ret_val,                 \* what read_color_channel returned last
    map_val,                 \* what map_color_vals returned last
    screen_color,            \* texts printed at cursor (35,40) since clearDisplay
    stale,                   \* channels of color_readings not stored in this iteration
    classified_stale,        \* the value of stale at the last map_color_vals call
    map_calls,               \* map_color_vals calls in this iteration of loop()
    raw_seen,                \* per channel, the raw readings taken so far
    n_reads,                 \* read_color_channel calls so far (SpecExtrema)
    frame_raw                \* per channel, the raw reading color_readings was mapped from

vars == <<color_readings, color_min_max_readings, color_read_calib_vals, pc,
          color, raw, ret_val, map_val, screen_color, stale, classified_stale,
          map_calls, raw_seen, n_reads, frame_raw>>

---------------------------------------------------------------------------
(* Bounds of the model. *)

\* Loop: pulseIn() returns k * RawStep for k in 0..MaxRawSteps.
RawStep == 55
MaxRawSteps == 2

\* Classifier frames: readings within Span of 0, of 220 and of 255.
Span == 6

\* Normalisation: calibration low ends 1..MaxRawLow, widths 1..MaxSmallRun and
\* 256-RunSpan .. 256+RunSpan (and the configured rows), raw up to Over past
\* the high end.
MaxRawLow == 2
MaxSmallRun == 3
RunSpan == 3
Over == 2

\* Extrema: raw readings k * ExtStep for k in 0..MaxExtSteps, MaxReads calls.
ExtStep == 25
MaxExtSteps == 2
MaxReads == 4

---------------------------------------------------------------------------
(* Program constants. *)

RED == 0
GREEN == 1
BLUE == 2
CLEAR == 3
Channels == {RED, GREEN, BLUE, CLEAR}

RED_STR == 0
GREEN_STR == 1
BLUE_STR == 2
BLACK_STR == 3
WHITE_STR == 4
UNDEF_STR == 5
MAP_ERROR == 255
RGB_VAL_MAPPING_LEN == 6

INT_MAX_16 == 32767
INT_MIN_16 == -32768

InitMinMax == [c \in Channels |-> <<INT_MAX_16, INT_MIN_16>>]

InitCalibVals ==
    [c \in Channels |->
        CASE c = RED   -> <<1, 111>>
          [] c = GREEN -> <<2, 125>>
          [] c = BLUE  -> <<1, 101>>
          [] OTHER     -> <<0, 255>>]

RGB_DISPLAY_MAP ==
    [i \in 0..5 |->
        CASE i = 0 -> "Red"
          [] i = 1 -> "Green"
          [] i = 2 -> "Blue"
          [] i = 3 -> "Black"
          [] i = 4 -> "White"
          [] OTHER -> "Undef"]

wb_deviation == 8
wb_determine == 220 * 3

---------------------------------------------------------------------------
(* Arithmetic of the target: C integer division truncates towards zero;    *)
(* TLA+'s \div rounds down.                                                *)

abs(x) == IF x > 0 THEN x ELSE -x

CDiv(a, b) ==
    IF (a >= 0) = (b > 0)
    THEN abs(a) \div abs(b)
    ELSE -(abs(a) \div abs(b))

\* Variant of Map that constrains the result to the output range.
MapClamped(x, in_min, in_max, out_min, out_max) ==
    LET v == CDiv((x - in_min) * (out_max - out_min), in_max - in_min) + out_min
        lo == IF out_min < out_max THEN out_min ELSE out_max
        hi == IF out_min < out_max THEN out_max ELSE out_min
    IN  IF v < lo THEN lo ELSE IF v > hi THEN hi ELSE v

\* Arduino's map(): (x - in_min) * (out_max - out_min) / (in_max - in_min) + out_min,
\* in long arithmetic; pulse widths are at most 1,000,000 us (pulseIn's
\* timeout), so the product does not overflow 32 bits.
Map(x, in_min, in_max, out_min, out_max) ==
    CDiv((x - in_min) * (out_max - out_min), in_max - in_min) + out_min

---------------------------------------------------------------------------
(* map_color_vals, as a function of the frame c = color_readings.          *)

\* Stage 1: each channel within wb_deviation of both others.
\* (red_in_bw_rng_reversed is the variant with > for <.)
red_in_bw_rng_reversed(c) ==
    abs(c[0] - c[1]) > wb_deviation /\ abs(c[0] - c[2]) > wb_deviation

red_in_bw_rng(c) ==
    abs(c[0] - c[1]) < wb_deviation /\ abs(c[0] - c[2]) < wb_deviation

grn_in_bw_rng(c) ==
    abs(c[1] - c[0]) < wb_deviation /\ abs(c[1] - c[2]) < wb_deviation

blu_in_bw_rng(c) ==
    abs(c[2] - c[0]) < wb_deviation /\ abs(c[2] - c[1]) < wb_deviation

\* if (red_in_bw_rng && grn_in_bw_rng && blu_in_bw_rng): Stage 1 decides.
in_bw_rng(c) == red_in_bw_rng(c) /\ grn_in_bw_rng(c) /\ blu_in_bw_rng(c)

\* Variant: the threshold of one channel, 220, compared with the sum.
black_or_white_threshold_low(c) ==
    IF c[0] + c[1] + c[2] > 220 THEN WHITE_STR ELSE BLACK_STR

\* The close frame is White when the sum exceeds wb_determine, else Black.
black_or_white(c) ==
    IF c[0] + c[1] + c[2] > wb_determine THEN WHITE_STR ELSE BLACK_STR

\* double avg = (r + g + b) / 3: the division is between ints, so avg is the
\* truncated quotient, an integer held in a double.
avg(c) == CDiv(c[0] + c[1] + c[2], 3)

\* 3 * std_dev^2 = sum of the squared deviations from avg; std_dev is its
\* square root over 3, zero exactly when this sum is zero.
sum_sq_dev(c) ==
    (c[0] - avg(c)) * (c[0] - avg(c)) +
    (c[1] - avg(c)) * (c[1] - avg(c)) +
    (c[2] - avg(c)) * (c[2] - avg(c))

\* Numerator of a channel's outlier value abs(avg - reading) / std_dev: an
\* integer, exact in a double.
outlier_num(c, i) == abs(avg(c) - c[i])

\* outlier_gt: x_outlier > y_outlier.  Both are quotients by the same std_dev.  With
\* std_dev > 0 the integer numerators differ by at least 1, far more than a
\* double's rounding, so the quotients compare as the numerators do.  With
\* std_dev = 0 every numerator is 0 and every quotient is 0/0 = NaN, which
\* compares false.
\* (outlier_gt_or_equal is the variant with >= for >.)
outlier_gt_or_equal(c, i, j) ==
    sum_sq_dev(c) > 0 /\ outlier_num(c, i) >= outlier_num(c, j)

outlier_gt(c, i, j) ==
    sum_sq_dev(c) > 0 /\ outlier_num(c, i) > outlier_num(c, j)

\* The nested direction checks; red's tests green twice.  (red_reversed and
\* grn_never_negative are variants: the comparison turned round, and the
\* check left out.)
red_reversed(c) == c[0] > c[1] \/ c[0] > c[1]

red_is_negative(c) == c[0] < c[1] \/ c[0] < c[1]

grn_never_negative(c) == FALSE

grn_is_negative(c) == c[1] < c[0] \/ c[1] < c[2]

blu_is_negative(c) == c[2] < c[0] \/ c[2] < c[1]

\* Stage 2 is run and its three divisions by std_dev divide by zero.
div_by_zero(c) == ~in_bw_rng(c) /\ sum_sq_dev(c) = 0

map_color_vals(c) ==
    IF in_bw_rng(c)
    THEN black_or_white(c)
    ELSE IF outlier_gt(c, 0, 1) /\ outlier_gt(c, 0, 2)
    THEN (IF red_is_negative(c) THEN UNDEF_STR ELSE RED_STR)
    ELSE IF outlier_gt(c, 1, 0) /\ outlier_gt(c, 1, 2)
    THEN (IF grn_is_negative(c) THEN UNDEF_STR ELSE GREEN_STR)
    ELSE IF outlier_gt(c, 2, 0) /\ outlier_gt(c, 2, 1)
    THEN (IF blu_is_negative(c) THEN UNDEF_STR ELSE BLUE_STR)
    ELSE MAP_ERROR

---------------------------------------------------------------------------
(* read_color_channel(color_index), pulse being what pulseIn() returns:    *)
(* the extrema update, then the mapping to 0..255 with the channel's       *)
(* calibration row.                                                        *)

\* Variant without the else: both checks run on every reading.
min_max_update_both(mm, v) ==
    <<IF v < mm[1] THEN v ELSE mm[1], IF v > mm[2] THEN v ELSE mm[2]>>

\* if (ret_val < min) min = ret_val; else if (ret_val > max) max = ret_val;
min_max_update(mm, v) ==
    IF v < mm[1] THEN <<v, mm[2]>>
    ELSE IF v > mm[2] THEN <<mm[1], v>>
    ELSE mm

\* Variants: the output pair not reversed; the result constrained to 0..255.
map_to_rgb_unreversed(v, cal) == Map(v, cal[1], cal[2], 0, 255)

map_to_rgb_clamped(v, cal) == MapClamped(v, cal[1], cal[2], 255, 0)

\* map(ret_val, low, high, 255, 0)
map_to_rgb(v, cal) == Map(v, cal[1], cal[2], 255, 0)

read_color_channel(color_index, pulse) ==
    /\ raw' = pulse
    /\ color_min_max_readings' =
          [color_min_max_readings EXCEPT
              ![color_index] = min_max_update(@, pulse)]
    /\ ret_val' = map_to_rgb(pulse, color_read_calib_vals[color_index])
    /\ UNCHANGED color_read_calib_vals

---------------------------------------------------------------------------
(* write_color_to_display(color_index): prints the channel's label and     *)
(* value, then classifies the whole frame and prints the colour text.      *)

color_text(v) ==
    IF v < RGB_VAL_MAPPING_LEN THEN RGB_DISPLAY_MAP[BLACK_STR] ELSE "MAP ERR"

write_color_to_display(color_index) ==
    /\ map_val' = map_color_vals(color_readings)
    /\ screen_color' = Append(screen_color, color_text(map_color_vals(color_readings)))
    /\ classified_stale' = stale
    /\ map_calls' = map_calls + 1

---------------------------------------------------------------------------
(* The program: loop() after setup().                                      *)

RawVals == {k * RawStep : k \in 0..MaxRawSteps}

Init ==
    /\ color_readings = [c \in Channels |-> 0]
    /\ color_min_max_readings = InitMinMax
    /\ color_read_calib_vals = InitCalibVals
    /\ pc = "display_refresh"
    /\ color = 0
    /\ raw = 0
    /\ ret_val = 0
    /\ map_val = 0
    /\ screen_color = <<>>
    /\ stale = {RED, GREEN, BLUE}
    /\ classified_stale = {}
    /\ map_calls = 0
    /\ raw_seen = [c \in Channels |-> {}]
    /\ n_reads = 0
    /\ frame_raw = [c \in Channels |-> 0]

\* display_refresh(): clearDisplay and the static header; a new iteration.
DisplayRefresh ==
    /\ pc = "display_refresh"
    /\ screen_color' = <<>>
    /\ color' = 0
    /\ stale' = {RED, GREEN, BLUE}
    /\ map_calls' = 0
    /\ pc' = "read_color_channel"
    /\ UNCHANGED <<color_readings, color_min_max_readings, color_read_calib_vals,
                   raw, ret_val, map_val, classified_stale, raw_seen, n_reads, frame_raw>>

\* color_readings[color] = read_color_channel(color)
ReadColor ==
    /\ pc = "read_color_channel"
    /\ color < 3
    /\ \E pulse \in RawVals :
          /\ read_color_channel(color, pulse)
          /\ color_readings' = [color_readings EXCEPT ![color] = ret_val']
          /\ frame_raw' = [frame_raw EXCEPT ![color] = pulse]
    /\ stale' = stale \ {color}
    /\ pc' = "write_color_to_display"
    /\ UNCHANGED <<color, map_val, screen_color, classified_stale, map_calls,
                   raw_seen, n_reads>>

\* write_color_to_display(color); color++
WriteColor ==
    /\ pc = "write_color_to_display"
    /\ write_color_to_display(color)
    /\ color' = color + 1
    /\ pc' = IF color + 1 < 3 THEN "read_color_channel" ELSE "screen_display"
    /\ UNCHANGED <<color_readings, color_min_max_readings, color_read_calib_vals,
                   raw, ret_val, stale, raw_seen, n_reads, frame_raw>>

\* screen.display(); delay(100); loop() returns and is called again.
ScreenDisplay ==
    /\ pc = "screen_display"
    /\ pc' = "display_refresh"
    /\ UNCHANGED <<color_readings, color_min_max_readings, color_read_calib_vals,
                   color, raw, ret_val, map_val, screen_color, stale,
                   classified_stale, map_calls, raw_seen, n_reads, frame_raw>>

Next == DisplayRefresh \/ ReadColor \/ WriteColor \/ ScreenDisplay

Spec == Init /\ [][Next]_vars

---------------------------------------------------------------------------
(* SpecClassify: map_color_vals on one frame.  The readings are ints that  *)
(* need not lie in 0..255 (the mapping does not clamp), so the frames      *)
(* include negative values and values above 255.                           *)

ReadingVals == (0 - Span .. Span) \cup (220 - Span .. 220 + Span)
                   \cup (255 - Span .. 255 + Span)

InitClassify ==
    /\ color_readings \in
          {[c \in Channels |->
               IF c = RED THEN r ELSE IF c = GREEN THEN g
               ELSE IF c = BLUE THEN b ELSE 0] :
             r \in ReadingVals, g \in ReadingVals, b \in ReadingVals}
    /\ color_min_max_readings = InitMinMax
    /\ color_read_calib_vals = InitCalibVals
    /\ pc = "map_color_vals"
    /\ color = 0
    /\ raw = 0
    /\ ret_val = 0
    /\ map_val = 0
    /\ screen_color = <<>>
    /\ stale = {}
    /\ classified_stale = {}
    /\ map_calls = 0
    /\ raw_seen = [c \in Channels |-> {}]
    /\ n_reads = 0
    /\ frame_raw = [c \in Channels |-> 0]

ClassifyFrame ==
    /\ pc = "map_color_vals"
    /\ map_val' = map_color_vals(color_readings)
    /\ map_calls' = map_calls + 1
    /\ pc' = "classified"
    /\ UNCHANGED <<color_readings, color_min_max_readings, color_read_calib_vals,
                   color, raw, ret_val, screen_color, stale, classified_stale,
                   raw_seen, n_reads, frame_raw>>

NextClassify == ClassifyFrame

SpecClassify == InitClassify /\ [][NextClassify]_vars

---------------------------------------------------------------------------
(* SpecNormalize: one call of read_color_channel, with the calibration row *)
(* of the channel read set to any range low < high of the bounded set (the *)
(* rows are found empirically and plugged into the array), and any raw     *)
(* pulse width from 0 to Over past the high end.                           *)

CalibRuns == (1 .. MaxSmallRun) \cup (256 - RunSpan .. 256 + RunSpan)

CalibRanges ==
    {InitCalibVals[c] : c \in Channels}
        \cup {<<lo, lo + run>> : lo \in 1..MaxRawLow, run \in CalibRuns}

InitNormalize ==
    /\ color \in Channels
    /\ \E rng \in CalibRanges :
          color_read_calib_vals = [InitCalibVals EXCEPT ![color] = rng]
    /\ color_readings = [c \in Channels |-> 0]
    /\ color_min_max_readings = InitMinMax
    /\ pc = "call"
    /\ raw = 0
    /\ ret_val = 0
    /\ map_val = 0
    /\ screen_color = <<>>
    /\ stale = {}
    /\ classified_stale = {}
    /\ map_calls = 0
    /\ raw_seen = [c \in Channels |-> {}]
    /\ n_reads = 0
    /\ frame_raw = [c \in Channels |-> 0]

NormalizeCall ==
    /\ pc = "call"
    /\ \E pulse \in 0 .. color_read_calib_vals[color][2] + Over :
          read_color_channel(color, pulse)
    /\ pc' = "returned"
    /\ UNCHANGED <<color_readings, color, map_val, screen_color, stale,
                   classified_stale, map_calls, raw_seen, n_reads, frame_raw>>

NextNormalize == NormalizeCall

SpecNormalize == InitNormalize /\ [][NextNormalize]_vars

---------------------------------------------------------------------------
(* SpecExtrema: up to MaxReads calls of read_color_channel, on any         *)
(* channel, each raw reading logged in raw_seen.                           *)

ExtVals == {k * ExtStep : k \in 0..MaxExtSteps}

InitExtrema ==
    /\ color_readings = [c \in Channels |-> 0]
    /\ color_min_max_readings = InitMinMax
    /\ color_read_calib_vals = InitCalibVals
    /\ pc = "extrema"
    /\ color = 0
    /\ raw = 0
    /\ ret_val = 0
    /\ map_val = 0
    /\ screen_color = <<>>
    /\ stale = {}
    /\ classified_stale = {}
    /\ map_calls = 0
    /\ raw_seen = [c \in Channels |-> {}]
    /\ n_reads = 0
    /\ frame_raw = [c \in Channels |-> 0]

ExtremaRead ==
    /\ pc = "extrema"
    /\ n_reads < MaxReads
    /\ \E c \in Channels, pulse \in ExtVals :
          /\ read_color_channel(c, pulse)
          /\ color' = c
          /\ raw_seen' = [raw_seen EXCEPT ![c] = @ \cup {pulse}]
    /\ n_reads' = n_reads + 1
    /\ UNCHANGED <<color_readings, pc, map_val, screen_color, stale,
                   classified_stale, map_calls, frame_raw>>

NextExtrema == ExtremaRead

SpecExtrema == InitExtrema /\ [][NextExtrema]_vars

---------------------------------------------------------------------------
(* Properties of map_color_vals, under SpecClassify.                       *)

R == color_readings[RED]
G == color_readings[GREEN]
B == color_readings[BLUE]

Classified == pc = "classified"

\* All three pairwise absolute differences are below 8.
PairwiseClose ==
    /\ (R - G < 8 /\ G - R < 8)
    /\ (R - B < 8 /\ B - R < 8)
    /\ (G - B < 8 /\ B - G < 8)

\* C1: map_color_vals returns White exactly when all three pairwise absolute
\* differences are < 8 and r+g+b > 660, and Black exactly when they are all
\* < 8 and r+g+b <= 660; so identical readings give Black or White, and a
\* pairwise difference >= 8 never gives Black or White.
C1_AchromaticExactly ==
    Classified =>
        /\ (map_val = WHITE_STR) = (PairwiseClose /\ R + G + B > 660)
        /\ (map_val = BLACK_STR) = (PairwiseClose /\ R + G + B <= 660)
        /\ (R = G /\ G = B => map_val \in {BLACK_STR, WHITE_STR})
        /\ (~PairwiseClose => map_val \notin {BLACK_STR, WHITE_STR})

\* The boundary of C1: a close frame summing to exactly 660 came out Black,
\* with readings that are not all equal.
C1_Witness ==
    /\ Classified
    /\ PairwiseClose
    /\ R + G + B = 660
    /\ R # G
    /\ map_val = BLACK_STR

\* C2: a frame in which one channel reads x+d, d >= 8, and the two others
\* both read x is classified as that channel's hue, for every integer x.
C2_SingleHighChannelIsHue ==
    Classified =>
        /\ (G = B /\ R - G >= 8 => map_val = RED_STR)
        /\ (R = B /\ G - R >= 8 => map_val = GREEN_STR)
        /\ (R = G /\ B - R >= 8 => map_val = BLUE_STR)

\* C2 at its edge: d = 8 exactly, x negative and the sum negative (where the
\* truncated mean rounds up), classified Red.
C2_Witness ==
    /\ Classified
    /\ G = B
    /\ R - G = 8
    /\ R + G + B < 0
    /\ map_val = RED_STR

\* Two channels tie for the highest z-score |mean - value| / stddev, with
\* stddev > 0.  Scaled by 3 * stddev, the z-scores about the arithmetic mean
\* are |r+g+b - 3*value|; about the mean the code computes they are the
\* outlier numerators.
Dev3(v) == abs(R + G + B - 3 * v)

TieForHighest(zr, zg, zb) ==
    \/ (zr = zg /\ zr >= zb)
    \/ (zr = zb /\ zr >= zg)
    \/ (zg = zb /\ zg >= zr)

ZScoresTie ==
    /\ ~(R = G /\ G = B)
    /\ \/ TieForHighest(Dev3(R), Dev3(G), Dev3(B))
       \/ TieForHighest(outlier_num(color_readings, 0),
                        outlier_num(color_readings, 1),
                        outlier_num(color_readings, 2))

\* C3 as stated: every frame in which two channels tie exactly for the
\* highest z-score is mapped to the error code 255.
C3_Original_TieIsMappingError ==
    Classified /\ ZScoresTie => map_val = MAP_ERROR

\* C3, amended: every frame that fails the achromatic test (some pairwise
\* difference is >= 8) and in which two channels tie exactly for the highest
\* z-score is mapped to the error code 255.
C3_TieInStageTwoIsMappingError ==
    Classified /\ ~PairwiseClose /\ ZScoresTie => map_val = MAP_ERROR

\* A tie about the code's mean that is no tie about the arithmetic mean,
\* mapped to 255.
C3_Witness ==
    /\ Classified
    /\ ~PairwiseClose
    /\ ~TieForHighest(Dev3(R), Dev3(G), Dev3(B))
    /\ TieForHighest(outlier_num(color_readings, 0),
                     outlier_num(color_readings, 1),
                     outlier_num(color_readings, 2))
    /\ map_val = MAP_ERROR

\* Channel i is the strict outlier of Stage 2 and reads below both others.
StrictOutlierBelow(i, j, k) ==
    /\ ~PairwiseClose
    /\ outlier_num(color_readings, i) > outlier_num(color_readings, j)
    /\ outlier_num(color_readings, i) > outlier_num(color_readings, k)
    /\ color_readings[i] < color_readings[j]
    /\ color_readings[i] < color_readings[k]

ExactMeanLabel ==
    IF PairwiseClose
    THEN (IF R + G + B > 660 THEN WHITE_STR ELSE BLACK_STR)
    ELSE IF Dev3(R) > Dev3(G) /\ Dev3(R) > Dev3(B)
    THEN (IF R < G \/ R < G THEN UNDEF_STR ELSE RED_STR)
    ELSE IF Dev3(G) > Dev3(R) /\ Dev3(G) > Dev3(B)
    THEN (IF G < R \/ G < B THEN UNDEF_STR ELSE GREEN_STR)
    ELSE IF Dev3(B) > Dev3(R) /\ Dev3(B) > Dev3(G)
    THEN (IF B < R \/ B < G THEN UNDEF_STR ELSE BLUE_STR)
    ELSE MAP_ERROR

\* C5: in Stage 2 the channel selected is the one whose absolute deviation
\* from the arithmetic mean (r+g+b)/3 is strictly the greatest: the label
\* returned is the label of the same decision tree with the exact mean.
C5_LabelOfExactMean ==
    Classified /\ ~PairwiseClose => map_val = ExactMeanLabel

---------------------------------------------------------------------------
(* Properties of the normalisation in read_color_channel, under            *)
(* SpecNormalize.                                                          *)

Returned == pc = "returned"
RawLow == color_read_calib_vals[color][1]
RawHigh == color_read_calib_vals[color][2]

\* C6: with rawLow < rawHigh, raw = rawLow is mapped to 255, raw = rawHigh
\* to 0, every raw in rawLow..rawHigh to an integer in 0..255, following
\* 255 + (raw - rawLow) * (0 - 255) / (rawHigh - rawLow), the quotient
\* truncated towards zero.
C6_NormalizeEndpointsAndRange ==
    Returned =>
        /\ (raw = RawLow => ret_val = 255)
        /\ (raw = RawHigh => ret_val = 0)
        /\ (RawLow <= raw /\ raw <= RawHigh => ret_val \in 0..255)
        /\ ret_val = 255 +
              (IF raw >= RawLow
               THEN -(((raw - RawLow) * 255) \div (RawHigh - RawLow))
               ELSE ((RawLow - raw) * 255) \div (RawHigh - RawLow))

\* A raw reading strictly inside Red's configured range {1, 111} whose
\* quotient is not exact, mapped strictly inside 0..255.
C6_Witness ==
    /\ Returned
    /\ color = RED
    /\ color_read_calib_vals = InitCalibVals
    /\ RawLow < raw /\ raw < RawHigh
    /\ ((raw - RawLow) * 255) % (RawHigh - RawLow) # 0
    /\ 0 < ret_val /\ ret_val < 255

\* C7 as stated: for every range rawLow < rawHigh, a raw reading below
\* rawLow is mapped above 255 and a raw reading above rawHigh below 0.
C7_Original_OutsideMapsOutside ==
    Returned =>
        /\ (raw < RawLow => ret_val > 255)
        /\ (raw > RawHigh => ret_val < 0)

\* C7, amended: for every range with 0 < rawHigh - rawLow <= 255 (all four
\* configured ranges are such), a raw reading below rawLow is mapped above
\* 255 and a raw reading above rawHigh below 0.
C7_OutsideMapsOutsideNarrowRange ==
    Returned /\ RawHigh - RawLow <= 255 =>
        /\ (raw < RawLow => ret_val > 255)
        /\ (raw > RawHigh => ret_val < 0)

\* The widest range the amended C7 covers, read one past its high end, and
\* mapped to -1.
C7_Witness ==
    /\ Returned
    /\ RawHigh - RawLow = 255
    /\ raw = RawHigh + 1
    /\ ret_val = 0 - 1

---------------------------------------------------------------------------
(* Properties of the extrema, under SpecExtrema.                           *)

SetMin(S) == CHOOSE x \in S : \A y \in S : x <= y
SetMax(S) == CHOOSE x \in S : \A y \in S : x >= y

\* C8: once a channel has been read, color_min_max_readings of the channel
\* holds the smallest raw reading taken on it in entry [0] and the largest
\* in entry [1].
C8_ExtremaAreMinAndMax ==
    \A c \in Channels :
        raw_seen[c] # {} =>
            /\ color_min_max_readings[c][1] = SetMin(raw_seen[c])
            /\ color_min_max_readings[c][2] = SetMax(raw_seen[c])

---------------------------------------------------------------------------
(* Properties of loop(), under Spec.                                       *)

\* C10: in every iteration of loop() map_color_vals is evaluated once, and
\* only on a frame whose three channels were all read and stored in that
\* iteration, never on one that mixes in readings of an earlier iteration or
\* the initial zeros.
C10_ClassifyOnceOnFullFrame ==
    /\ classified_stale = {}
    /\ map_calls <= 1


\* The name of a label: the label-to-string table, and the error string for
\* the error code.
LabelName(v) ==
    CASE v = 0 -> "Red"
      [] v = 1 -> "Green"
      [] v = 2 -> "Blue"
      [] v = 3 -> "Black"
      [] v = 4 -> "White"
      [] v = 5 -> "Undef"
      [] OTHER -> "MAP ERR"

\* C11: the colour text written to the display is the name of the label
\* map_color_vals returned: Red, Green, Blue, Black, White, Undef through the
\* label-to-string table, and "MAP ERR" for the error code 255.
C11_DisplayedTextIsLabelName ==
    screen_color # <<>> =>
        screen_color[Len(screen_color)] = LabelName(map_val)

\* C12: with wb_deviation = 8, Stage 2 never divides by zero: on every frame
\* that fails the achromatic test the standard deviation about the truncated
\* mean is strictly positive, the all-equal frames being caught by Stage 1.
C12_StageTwoNeverDividesByZero ==
    Classified =>
        /\ ~div_by_zero(color_readings)
        /\ (~PairwiseClose => sum_sq_dev(color_readings) > 0)
        /\ (R = G /\ G = B => in_bw_rng(color_readings))

\* The frames nearest to Stage 1 that reach Stage 2: two readings equal and
\* the third 8 above, divided by a positive std_dev and classified Blue.
C12_Witness ==
    /\ Classified
    /\ R = G
    /\ B - R = 8
    /\ ~in_bw_rng(color_readings)
    /\ sum_sq_dev(color_readings) > 0
    /\ map_val = BLUE_STR

\* loop() has read, stored and classified all three channels of this
\* iteration, and pulseIn returned 0 (no pulse) for each of them.
NoPulseFrameClassified ==
    /\ pc = "screen_display"
    /\ stale = {}
    /\ frame_raw[RED] = 0
    /\ frame_raw[GREEN] = 0
    /\ frame_raw[BLUE] = 0

\* C13: a failed pulse read is not told from a valid reading: when raw 0 is
\* returned for Red, Green and Blue, each channel normalises with the default
\* ranges {1,111}, {2,125}, {1,101} to a value above 255, the frame passes
\* the achromatic test, and map_color_vals returns White, not an error or
\* Undefined label.
C13_NoPulseIsWhite ==
    NoPulseFrameClassified =>
        /\ R > 255 /\ G > 255 /\ B > 255
        /\ PairwiseClose
        /\ map_val = WHITE_STR
        /\ map_val \notin {UNDEF_STR, MAP_ERROR}

\* The no-pulse frame itself: (257, 259, 257), classified White.
C13_Witness ==
    /\ NoPulseFrameClassified
    /\ color_read_calib_vals = InitCalibVals
    /\ R = 257 /\ G = 259 /\ B = 257
    /\ map_val = WHITE_STR

===========================================================================
